---- MODULE Spec2Model ----
(***************************************************************************)
(* class-plus: the class builder Class(args, obj) with its asyncify        *)
(* wrapper, and the HookHelper mixin (registerHook, removeHook, fireHook). *)
(*                                                                         *)
(* src/class.js holds two copies of the library; the second one (lines     *)
(* 152-339, the one whose module.exports is in force) is the one modelled. *)
(*                                                                         *)
(* JavaScript values are records with a "kind" field.  Property tables     *)
(* (prototypes, static tables, the args object) are functions from names   *)
(* to values.  Member and hook names are ordinary names: none of them is   *)
(* a member of Object.prototype or Function.prototype.                     *)
(*                                                                         *)
(* The hook dispatcher is modelled turn by turn: one action is one run of  *)
(* JavaScript to completion (a call of a hook method, a next-tick job, a   *)
(* listener calling its completion callback, a listener's promise          *)
(* settling).  One instance is followed, with one fireHook call under way  *)
(* at a time; a listener signals completion once.                          *)
(***************************************************************************)
EXTENDS Integers, Sequences, FiniteSets, TLC

VARIABLES
    classes,    \* class name -> [proto, statics]: own members of each construct
    body,       \* which class body Foo was declared with
    last,       \* the latest Class(args, obj) call: target, args, stage snapshots
    augCount,   \* number of Class() calls made so far
    instances,  \* number of instances of Foo created with new
    staticSets, \* number of static entries assigned after augmentation
    call,       \* the call of a converted method that is under way
    promise,    \* the promise that the call under way returned
    hooks,      \* this.hooks of the instance: undefined, or the registry
    fire,       \* the fireHook call under way: its arguments and locals
    tickQueue,  \* the functions given to process.nextTick, not yet run
    log,        \* listener invocations and completions of the latest fire
    completions,\* the calls of the fire's callback made by the dispatcher
    hookCalls,  \* number of calls of the three hook methods made so far
    regCount    \* number of registerHook calls among them

augVars == <<classes, body, last, augCount, instances, staticSets>>

callVars == <<call, promise>>

hookVars == <<hooks, fire, tickQueue, log, completions, hookCalls, regCount>>

vars == <<classes, body, last, augCount, instances, staticSets, call, promise,
          hooks, fire, tickQueue, log, completions, hookCalls, regCount>>

----------------------------------------------------------------------------
(* Bounds                                                                  *)

MaxAugments == 2
MaxInstances == 1
MaxStaticSets == 1
MaxResults == 2
MaxHookCalls == 4
MaxRegisters == 2

----------------------------------------------------------------------------
(* JavaScript values                                                       *)

Undefined == [kind |-> "undefined"]

Data(n) == [kind |-> "data", v |-> n]

True == [kind |-> "bool", b |-> TRUE]

Array(items) == [kind |-> "array", items |-> items]

\* a function written in a class body: ctor is its constructor.name,
\* lastParam the name of the last parameter of its source text
Method(id, ctor, lastParam) ==
    [kind |-> "func", id |-> id, ctor |-> ctor, lastParam |-> lastParam,
     async |-> FALSE]

\* an array of class names (the __mixins directive)
ClassList(list) == [kind |-> "array", classes |-> list]

\* an array of names (an __asyncify list, a list of result field names)
NameList(list) == [kind |-> "array", names |-> list]

\* a regular expression, given by the method names it matches
RegExp(matches) == [kind |-> "regexp", matches |-> matches]

\* a plain object
Object(tbl) == [kind |-> "object", tbl |-> tbl]

Truthy(v) ==
    CASE v.kind = "undefined" -> FALSE
      [] v.kind = "data" -> v.v # 0
      [] v.kind = "bool" -> v.b
      [] OTHER -> TRUE

typeof(v) ==
    CASE v.kind = "func" -> "function"
      [] v.kind = "undefined" -> "undefined"
      [] v.kind = "data" -> "number"
      [] v.kind = "bool" -> "boolean"
      [] OTHER -> "object"

\* the names of an array of names
Names(list) == {list.names[i] : i \in 1..Len(list.names)}

Empty == [k \in {} |-> Undefined]

Get(tbl, k) == IF k \in DOMAIN tbl THEN tbl[k] ELSE Undefined

Put(tbl, k, v) == [x \in DOMAIN tbl \cup {k} |-> IF x = k THEN v ELSE tbl[x]]

\* tbl with the entries of upd written over it
Assign(tbl, upd) ==
    [x \in DOMAIN tbl \cup DOMAIN upd |-> IF x \in DOMAIN upd THEN upd[x] ELSE tbl[x]]

----------------------------------------------------------------------------
(* asyncify(origFunc, argNames): the dual-mode wrapper                     *)

\* the wrapper is an async function closing over origFunc and argNames
asyncify(origFunc, argNames) ==
    [kind |-> "func", id |-> "asyncify", ctor |-> "AsyncFunction",
     lastParam |-> "args", async |-> FALSE,
     origFunc |-> origFunc, argNames |-> argNames]

\* proto[key].__async = true
MarkAsync(f) == [f EXCEPT !.async = TRUE]

IsWrapper(v) == v.kind = "func" /\ v.id = "asyncify"

\* number of asyncify layers around the function written by the programmer
RECURSIVE WrapDepth(_)
WrapDepth(v) == IF IsWrapper(v) THEN 1 + WrapDepth(v.origFunc) ELSE 0

\* the function written by the programmer, under all wrappers
RECURSIVE Innermost(_)
Innermost(v) == IF IsWrapper(v) THEN Innermost(v.origFunc) ELSE v


AsyncFlag(v) == v.kind = "func" /\ v.async

\* v.constructor.name
CtorName(v) ==
    CASE v.kind = "func" -> v.ctor
      [] v.kind = "data" -> "Number"
      [] v.kind = "bool" -> "Boolean"
      [] v.kind = "array" -> "Array"
      [] OTHER -> "Object"

\* proto[key].toString().match(/^\s*\S+\s*\([^\)]*(callback|cb)\s*\)\s*\{/):
\* the source text is a method name directly followed by a parameter list that
\* ends in callback or cb; the text of an async function starts with the word
\* async followed by a space, which the pattern does not accept
CallbackSignature(v) ==
    v.kind = "func" /\ v.ctor = "Function" /\ v.lastParam \in {"callback", "cb"}

----------------------------------------------------------------------------
(* The function asyncify returns, at call time                             *)

\* the completion callback the wrapper makes for a call in promise style
SynthCallback ==
    [kind |-> "func", id |-> "asyncify.callback", ctor |-> "Function",
     lastParam |-> "results", async |-> FALSE]

\* the function a caller passes as the last argument of a classic call
CallerCallback ==
    [kind |-> "func", id |-> "caller.callback", ctor |-> "Function",
     lastParam |-> "err", async |-> FALSE]

\* mutant: the wrapper never sees the caller's function
ClassicStyle_never(args) == FALSE

\* typeof(args[ args.length - 1 ]) == 'function'
ClassicStyle(args) ==
    typeof(IF Len(args) > 0 THEN args[Len(args)] ELSE Undefined) = "function"

\* the arguments origFunc is called with
OrigArgs(args) == IF ClassicStyle(args) THEN args ELSE Append(args, SynthCallback)

NoConvertedCall ==
    [status |-> "idle", method |-> Undefined, args |-> <<>>,
     origCalls |-> <<>>, passed |-> <<>>, received |-> <<>>]

NoPromise == [state |-> "none", value |-> Undefined, settled |-> 0]

PendingPromise == [state |-> "pending", value |-> Undefined, settled |-> 0]

\* what the wrapper returns right away: in classic style the async function
\* returns what origFunc returned, in promise style the new Promise
Returned(args, origReturn) ==
    IF ClassicStyle(args)
    THEN [state |-> "resolved", value |-> origReturn, settled |-> 1]
    ELSE PendingPromise

\* resultsObj[name] = results[idx] for each name of argNames
ResultsObj(argNames, results) ==
    Object([name \in Names(argNames) |->
        LET idx == CHOOSE i \in 1..Len(argNames.names) :
                      /\ argNames.names[i] = name
                      /\ \A j \in (i+1)..Len(argNames.names) : argNames.names[j] # name
        IN  IF idx <= Len(results) THEN results[idx] ELSE Undefined])

\* mutant: more than zero results make an array
ResolveValue_alwaysArray(argNames, results) ==
    IF Truthy(argNames) THEN ResultsObj(argNames, results)
    ELSE IF Len(results) > 0 THEN Array(results)
    ELSE Undefined

\* the value the promise resolves with; results are the values after err
ResolveValue(argNames, results) ==
    IF Truthy(argNames) THEN ResultsObj(argNames, results)
    ELSE IF Len(results) > 1 THEN Array(results)
    ELSE IF Len(results) = 1 THEN results[1]
    ELSE Undefined

\* resolve and reject of a promise: the first one settles it, later ones do nothing
SettlePromise(p, state, value) ==
    IF p.state = "pending"
    THEN [state |-> state, value |-> value, settled |-> p.settled + 1]
    ELSE p

\* mutant: the field names are looked at before the error
SynthCallbackBody_namesFirst(p, argNames, received) ==
    LET err == IF Len(received) > 0 THEN Head(received) ELSE Undefined
        results == IF Len(received) > 0 THEN Tail(received) ELSE <<>>
    IN  IF Truthy(argNames) THEN SettlePromise(p, "resolved", ResolveValue(argNames, results))
        ELSE IF Truthy(err) THEN SettlePromise(p, "rejected", err)
        ELSE SettlePromise(p, "resolved", ResolveValue(argNames, results))

\* function(...results) { let err = results.shift(); if (err) reject(err); ... }
SynthCallbackBody(p, argNames, received) ==
    LET err == IF Len(received) > 0 THEN Head(received) ELSE Undefined
        results == IF Len(received) > 0 THEN Tail(received) ELSE <<>>
    IN  IF Truthy(err) THEN SettlePromise(p, "rejected", err)
        ELSE SettlePromise(p, "resolved", ResolveValue(argNames, results))

----------------------------------------------------------------------------
(* HookHelper: registerHook, removeHook, fireHook                          *)

Delete(tbl, k) == [x \in DOMAIN tbl \ {k} |-> tbl[x]]

\* if (!this.hooks) this.hooks = {}
EnsureHooks(hk) == IF Truthy(hk) THEN hk ELSE Object(Empty)

\* registerHook(name, handler)
registerHook(hk, name, handler) ==
    LET tbl == EnsureHooks(hk).tbl
        list == IF name \in DOMAIN tbl THEN tbl[name] ELSE <<>>
    IN  Object(Put(tbl, name, Append(list, handler)))

\* this.hooks[name].indexOf(handler), counted from 1; 0 when there is none
IndexOf(list, handler) ==
    IF \E i \in 1..Len(list) : list[i] = handler
    THEN CHOOSE i \in 1..Len(list) :
            list[i] = handler /\ \A j \in 1..(i-1) : list[j] # handler
    ELSE 0

\* this.hooks[name].splice(idx, 1)
Splice(list, idx) == SubSeq(list, 1, idx - 1) \o SubSeq(list, idx + 1, Len(list))

\* mutant: every occurrence of the handler is taken out
removeHook_everyOccurrence(hk, name, handler) ==
    LET tbl == EnsureHooks(hk).tbl IN
    IF Truthy(handler)
    THEN IF name \in DOMAIN tbl
         THEN LET list == SelectSeq(tbl[name], LAMBDA h : h # handler)
              IN  IF Len(list) = 0 THEN Object(Delete(tbl, name))
                  ELSE Object(Put(tbl, name, list))
         ELSE Object(tbl)
    ELSE Object(Delete(tbl, name))

\* removeHook(name, handler)
removeHook(hk, name, handler) ==
    LET tbl == EnsureHooks(hk).tbl IN
    IF Truthy(handler)
    THEN IF name \in DOMAIN tbl
         THEN LET idx == IndexOf(tbl[name], handler)
                  list == IF idx > 0 THEN Splice(tbl[name], idx) ELSE tbl[name]
              IN  IF Len(list) = 0 THEN Object(Delete(tbl, name))
                  ELSE Object(Put(tbl, name, list))
         ELSE Object(tbl)
    ELSE Object(Delete(tbl, name))

\* where a step of the dispatcher runs: inside the fireHook call, inside the
\* completion callback of a listener, inside the call of a listener
Ctx(inCall, inCompletion) ==
    [inCall |-> inCall, inCompletion |-> inCompletion, inListener |-> FALSE]

\* the completion callback that a listener calls before it returns runs
\* inside the call of the listener, whatever that call is in
CalledByListener(ctx) == [ctx EXCEPT !.inCompletion = TRUE, !.inListener = TRUE]

Idle ==
    [status |-> "idle", mode |-> "none", name |-> "", thingy |-> Undefined,
     callback |-> Undefined, argNames |-> Undefined, idx |-> 0,
     pending |-> "none", snapshot |-> <<>>, mutated |-> FALSE,
     registered |-> FALSE, removed |-> {}]

\* an instance on which no hook method has been called
NoHooksYet ==
    /\ hooks = Undefined
    /\ fire = Idle
    /\ tickQueue = <<>>
    /\ log = <<>>
    /\ completions = <<>>
    /\ hookCalls = 0
    /\ regCount = 0

\* the dispatcher calls callback(...args)
Deliver(rt, args, ctx) ==
    [rt EXCEPT
        !.fire.status = "done",
        !.fire.pending = "none",
        !.completions = Append(@, [args |-> args, inCall |-> ctx.inCall,
                                   inCompletion |-> ctx.inCompletion,
                                   inListener |-> ctx.inListener]),
        !.promise = IF rt.fire.callback = SynthCallback
                    THEN SynthCallbackBody(@, rt.fire.argNames, args)
                    ELSE @]

\* an entry of the log
Event(ev, handler, val, failed, ctx) ==
    [ev |-> ev, handler |-> handler.id, val |-> val, failed |-> failed,
     inCall |-> ctx.inCall, inCompletion |-> ctx.inCompletion,
     inListener |-> ctx.inListener]

\* mutant: the dispatcher goes on to the next step without waiting for the listener
InvokeHandler_noWait(rt, handler, b, ctx) ==
    [rt EXCEPT !.log = Append(@, Event("invoke", handler, rt.fire.thingy, FALSE, ctx)),
               !.fire.pending = IF CtorName(handler) = "AsyncFunction"
                                THEN "promise" ELSE "callback",
               !.tickQueue = Append(@, "iterator")]

\* mutant: a completion callback called inside the call of its listener goes
\* on to the next step at once
InvokeHandler_sameStack(rt, handler, b, ctx) ==
    LET invoked == [rt EXCEPT !.log = Append(@, Event("invoke", handler,
                                                      rt.fire.thingy, FALSE, ctx))]
    IN  IF CtorName(handler) = "AsyncFunction"
        THEN [invoked EXCEPT !.fire.pending = "promise"]
        ELSE IF b.when = "later"
        THEN [invoked EXCEPT !.fire.pending = "callback"]
        ELSE LET completed ==
                    [invoked EXCEPT !.log = Append(@, Event("done", handler, b.err,
                                                   Truthy(b.err), CalledByListener(ctx)))]
                 list == rt.hooks.tbl[rt.fire.name]
             IN  IF Truthy(b.err)
                 THEN Deliver(completed, <<b.err>>, CalledByListener(ctx))
                 ELSE IF rt.fire.idx + 1 > Len(list)
                 THEN Deliver(completed, <<>>, CalledByListener(ctx))
                 ELSE [completed EXCEPT
                         !.fire.idx = @ + 1,
                         !.fire.pending = IF CtorName(list[rt.fire.idx + 1]) = "AsyncFunction"
                                          THEN "promise" ELSE "callback",
                         !.log = Append(@, Event("invoke", list[rt.fire.idx + 1],
                                        rt.fire.thingy, FALSE, CalledByListener(ctx)))]

\* handler.call(self, thingy) of an async function, or
\* handler.call(self, thingy, function(err) {...}) and nextThread++;
\* b says what a callback-style listener does before it returns: call its
\* completion callback with b.err, or keep it for later
InvokeHandler(rt, handler, b, ctx) ==
    LET invoked == [rt EXCEPT !.log = Append(@, Event("invoke", handler,
                                                      rt.fire.thingy, FALSE, ctx))]
    IN  IF CtorName(handler) = "AsyncFunction"
        THEN [invoked EXCEPT !.fire.pending = "promise"]
        ELSE IF b.when = "later"
        THEN [invoked EXCEPT !.fire.pending = "callback"]
        ELSE LET completed ==
                    [invoked EXCEPT !.log = Append(@, Event("done", handler, b.err,
                                                   Truthy(b.err), CalledByListener(ctx)))]
             IN  IF Truthy(b.err)
                 THEN Deliver(completed, <<b.err>>, CalledByListener(ctx))
                 ELSE [completed EXCEPT !.tickQueue = Append(@, "iterator")]

\* var handler = self.hooks[name][idx++]; if (!handler) return callback(); ...
Iterator(rt, b, ctx) ==
    IF rt.fire.name \notin DOMAIN rt.hooks.tbl
    THEN [rt EXCEPT !.fire.status = "threw", !.fire.pending = "none"]
    ELSE LET list == rt.hooks.tbl[rt.fire.name]
             handler == IF rt.fire.idx + 1 <= Len(list)
                        THEN list[rt.fire.idx + 1] ELSE Undefined
             stepped == [rt EXCEPT !.fire.idx = @ + 1, !.fire.pending = "none"]
         IN  IF ~Truthy(handler) THEN Deliver(stepped, <<>>, ctx)
             ELSE InvokeHandler(stepped, handler, b, ctx)

\* mutant: an empty sequence completes inside the fireHook call
FireEmpty_sameStack(rt) == Deliver(rt, <<>>, Ctx(TRUE, FALSE))

\* process.nextTick( callback ); return;
FireEmpty(rt) == [rt EXCEPT !.tickQueue = Append(@, "callback")]

\* fireHook(name, thingy, callback), from its first line to its return
fireHook(rt, name, thingy, callback, b) ==
    LET hk == EnsureHooks(rt.hooks)
        list == IF name \in DOMAIN hk.tbl THEN hk.tbl[name] ELSE <<>>
        started == [rt EXCEPT !.hooks = hk,
                              !.fire.status = "firing",
                              !.fire.name = name,
                              !.fire.thingy = thingy,
                              !.fire.callback = callback,
                              !.fire.idx = 0,
                              !.fire.snapshot = list]
    IN  IF name \notin DOMAIN hk.tbl \/ Len(hk.tbl[name]) = 0
        THEN FireEmpty(started)
        ELSE Iterator(started, b, Ctx(TRUE, FALSE))

----------------------------------------------------------------------------
(* Names and the patterns the builder matches them against                 *)

\* the characters of the configuration keys used below
Chars(s) ==
    CASE
         s = "__static" -> <<"_", "_", "s", "t", "a", "t", "i", "c">>
      [] s = "__asyncify" -> <<"_", "_", "a", "s", "y", "n", "c", "i", "f", "y">>
      [] s = "__mixins" -> <<"_", "_", "m", "i", "x", "i", "n", "s">>
      [] s = "__events" -> <<"_", "_", "e", "v", "e", "n", "t", "s">>
      [] s = "__hooks" -> <<"_", "_", "h", "o", "o", "k", "s">>
      [] s = "__statics" -> <<"_", "_", "s", "t", "a", "t", "i", "c", "s">>
      [] s = "__special" -> <<"_", "_", "s", "p", "e", "c", "i", "a", "l">>
      [] s = "prop1" -> <<"p", "r", "o", "p", "1">>
      [] s = "flavor" -> <<"f", "l", "a", "v", "o", "r">>
      [] s = "pour" -> <<"p", "o", "u", "r">>

IsPrefix(p, w) == Len(p) <= Len(w) /\ SubSeq(w, 1, Len(p)) = p

\* key.match(/^__(static|asyncify|events|hooks)/): a prefix match
MetaKeyMatch(key) ==
    \E w \in {"__static", "__asyncify", "__events", "__hooks"} :
        IsPrefix(Chars(w), Chars(key))

\* key.match(/^(__name|constructor|prototype)$/)
ProtoSkip(key) == key \in {"__name", "constructor", "prototype"}

\* key.match(/^(name|length|prototype)$/)
StaticSkip(key) == key \in {"name", "length", "prototype"}

\* the five directive keys of the configuration
DirectiveKeys == {"__static", "__mixins", "__events", "__hooks", "__asyncify"}

----------------------------------------------------------------------------
(* The classes of the model                                                *)

ClassNames == {"Base", "Foo"}

\* class Foo extends Base
Parent(c) == IF c = "Foo" THEN "Base" ELSE "none"

BaseClass ==
    [proto |-> [constructor |-> Method("Base.constructor", "Function", ""),
                base |-> Method("Base.base", "Function", ""),
                sleep |-> Method("Base.sleep", "Function", "callback")],
     statics |-> [kingdom |-> Data(41)]]

Bodies == {"plain", "asyncFireHook"}

FooMethods ==
    [constructor |-> Method("Foo.constructor", "Function", ""),
     foo |-> Method("Foo.foo", "Function", ""),
     pour |-> Method("Foo.pour", "Function", "callback"),
     nap |-> Method("Foo.nap", "Function", "done"),
     fetch |-> Method("Foo.fetch", "AsyncFunction", "callback")]

FooClass(b) ==
    [proto |-> IF b = "asyncFireHook"
               THEN Put(FooMethods, "fireHook",
                        Method("Foo.fireHook", "AsyncFunction", "thingy"))
               ELSE FooMethods,
     statics |-> Empty]

\* the classes that can be mixed in; Liquid is a class that went through
\* Class() before (data members on its prototype, a converted method)
Mixins ==
    [HookHelper |->
        [proto |-> [constructor |-> Method("HookHelper.constructor", "Function", ""),
                    registerHook |-> Method("HookHelper.registerHook", "Function", "handler"),
                    removeHook |-> Method("HookHelper.removeHook", "Function", "handler"),
                    fireHook |-> Method("HookHelper.fireHook", "Function", "callback")],
         statics |-> [name |-> Data(101), length |-> Data(0), prototype |-> Data(102)]],
     EventEmitter |->
        [proto |-> [constructor |-> Method("EventEmitter.constructor", "Function", ""),
                    on |-> Method("EventEmitter.on", "Function", "listener"),
                    emit |-> Method("EventEmitter.emit", "Function", "args")],
         statics |-> [name |-> Data(111), length |-> Data(1), prototype |-> Data(112),
                      defaultMaxListeners |-> Data(10)]],
     Liquid |->
        [proto |-> [constructor |-> Method("Liquid.constructor", "Function", ""),
                    pour |-> Method("Liquid.pour", "Function", "callback"),
                    base |-> Method("Liquid.base", "Function", ""),
                    emit |-> Method("Liquid.emit", "Function", ""),
                    drain |-> MarkAsync(asyncify(Method("Liquid.drain", "Function", "callback"),
                                                 Undefined)),
                    flavor |-> Data(1),
                    prop1 |-> Data(11),
                    __name |-> Data(12)],
         statics |-> [name |-> Data(121), length |-> Data(0), prototype |-> Data(122),
                      units |-> Data(21), types |-> Data(22), kingdom |-> Data(23)]],
     Glass |->
        [proto |-> [constructor |-> Method("Glass.constructor", "Function", ""),
                    fireHook |-> Method("Glass.fireHook", "Function", "callback"),
                    flavor |-> Data(2),
                    size |-> Data(8)],
         statics |-> [name |-> Data(131), length |-> Data(0), prototype |-> Data(132),
                      units |-> Data(31), count |-> Data(32)]]]

\* the configurations Class() is called with
Configs ==
    { Empty,
      [prop1 |-> Data(1), __special |-> Data(12345)],
      [__static |-> Object([units |-> Data(7), prop1 |-> Data(3)]),
       prop1 |-> Data(2), __statics |-> Data(4)],
      [__static |-> Object([units |-> Data(9), types |-> Data(5)]),
       __mixins |-> ClassList(<<"Liquid", "Glass">>)],
      [__mixins |-> ClassList(<<"Glass", "Liquid">>), __events |-> True,
       prop1 |-> Data(5), flavor |-> Data(6)],
      [__mixins |-> ClassList(<<"Liquid", "Glass">>), pour |-> Data(13)],
      [__hooks |-> True],
      [__hooks |-> True, __events |-> True, __asyncify |-> True,
       __mixins |-> ClassList(<<"Liquid">>)],
      [__asyncify |-> True],
      [__asyncify |-> NameList(<<"pour", "nope", "base", "fetch">>)],
      [__asyncify |-> RegExp({"pour", "nap", "fetch", "constructor", "sleep"})],
      [__asyncify |-> Object([pour |-> NameList(<<"amount", "units">>),
                              sleep |-> NameList(<<>>),
                              nope |-> NameList(<<"x">>)]),
       __hooks |-> True] }

----------------------------------------------------------------------------
(* Class(args, obj): the class builder                                     *)

\* what obj.prototype inherits: the members visible through the superclasses
RECURSIVE InheritedProto(_, _)
InheritedProto(cs, c) ==
    IF Parent(c) = "none" THEN Empty
    ELSE Assign(InheritedProto(cs, Parent(c)), cs[Parent(c)].proto)

\* what obj inherits: the static members visible through the superclasses
RECURSIVE InheritedStatics(_, _)
InheritedStatics(cs, c) ==
    IF Parent(c) = "none" THEN Empty
    ELSE Assign(InheritedStatics(cs, Parent(c)), cs[Parent(c)].statics)

\* the target while Class() works on it: its own tables, and the tables it
\* inherits (which Class() never writes)
Target(cs, c) ==
    [proto |-> cs[c].proto, statics |-> cs[c].statics,
     upProto |-> InheritedProto(cs, c), upStatics |-> InheritedStatics(cs, c)]

\* proto[key]
ProtoGet(t, key) ==
    IF key \in DOMAIN t.proto THEN t.proto[key] ELSE Get(t.upProto, key)

\* key in proto
InProto(t, key) == key \in DOMAIN t.proto \/ key \in DOMAIN t.upProto

\* key in obj
InStatics(t, key) == key \in DOMAIN t.statics \/ key \in DOMAIN t.upStatics

\* mutant: the static members are written to the prototype as well
StaticStep_onPrototype(t, args) ==
    IF Truthy(Get(args, "__static"))
    THEN [t EXCEPT !.statics = Assign(@, args["__static"].tbl),
                   !.proto = Assign(@, args["__static"].tbl)]
    ELSE t

\* for (var key in args.__static) obj[key] = args.__static[key]
StaticStep(t, args) ==
    IF Truthy(Get(args, "__static"))
    THEN [t EXCEPT !.statics = Assign(@, args["__static"].tbl)]
    ELSE t

\* proto[key] && !proto[key].__async && proto[key].constructor.name !== "AsyncFunction"
Convertible(v) == Truthy(v) /\ ~AsyncFlag(v) /\ CtorName(v) # "AsyncFunction"

\* proto[key] = asyncify(proto[key], argNames); proto[key].__async = true
Convert(v, argNames) == MarkAsync(asyncify(v, argNames))

\* the own names of proto that the pattern and the reflection branch consider
OwnMethods(t) ==
    {key \in DOMAIN t.proto : ~ProtoSkip(key) /\ typeof(t.proto[key]) = "function"}

\* the method names the __asyncify directive selects for conversion
AsyncifySelection(t, directive) ==
    IF typeof(directive) = "object"
    THEN CASE directive.kind = "array" ->
                {key \in Names(directive) : Convertible(ProtoGet(t, key))}
           [] directive.kind = "regexp" ->
                {key \in OwnMethods(t) :
                    key \in directive.matches /\ Convertible(t.proto[key])}
           [] OTHER ->
                {key \in DOMAIN directive.tbl : Convertible(ProtoGet(t, key))}
    ELSE {key \in OwnMethods(t) :
            CallbackSignature(t.proto[key]) /\ Convertible(t.proto[key])}

\* the result field names a converted method gets: only the hash form has any
AsyncifyArgNames(directive, key) ==
    IF typeof(directive) = "object" /\ directive.kind = "object"
    THEN directive.tbl[key]
    ELSE Undefined

\* if (args.__asyncify) { ... }
AsyncifyStep(t, args) ==
    LET directive == Get(args, "__asyncify") IN
    IF Truthy(directive)
    THEN [t EXCEPT !.proto =
            Assign(@, [key \in AsyncifySelection(t, directive) |->
                         Convert(ProtoGet(t, key), AsyncifyArgNames(directive, key))])]
    ELSE t

\* var mixins = args.__mixins || []; unshift EventEmitter; unshift HookHelper
MixinList(args) ==
    LET explicit == IF Truthy(Get(args, "__mixins")) THEN args["__mixins"].classes ELSE <<>>
        withEvents == IF Truthy(Get(args, "__events"))
                      THEN <<"EventEmitter">> \o explicit ELSE explicit
    IN  IF Truthy(Get(args, "__hooks")) THEN <<"HookHelper">> \o withEvents ELSE withEvents

\* mutant: the members of class_obj are copied whether or not the target has them
MergeMixin_clobbers(t, class_obj) ==
    LET newProto == {key \in DOMAIN class_obj.proto : ~ProtoSkip(key)}
        newStatics == {key \in DOMAIN class_obj.statics : ~StaticSkip(key)}
    IN  [t EXCEPT !.proto = Assign(@, [key \in newProto |-> class_obj.proto[key]]),
                  !.statics = Assign(@, [key \in newStatics |-> class_obj.statics[key]])]

\* one pass of the mixin loop: the members of class_obj the target lacks
MergeMixin(t, class_obj) ==
    LET newProto == {key \in DOMAIN class_obj.proto :
                        ~ProtoSkip(key) /\ ~InProto(t, key)}
        newStatics == {key \in DOMAIN class_obj.statics :
                        ~StaticSkip(key) /\ ~InStatics(t, key)}
    IN  [t EXCEPT !.proto = Assign(@, [key \in newProto |-> class_obj.proto[key]]),
                  !.statics = Assign(@, [key \in newStatics |-> class_obj.statics[key]])]

\* for (idx = 0; idx < len; idx++): the mixins in list order
RECURSIVE MergeMixins(_, _)
MergeMixins(t, mixins) ==
    IF mixins = <<>> THEN t
    ELSE MergeMixins(MergeMixin(t, Mixins[Head(mixins)]), Tail(mixins))

\* if (args.__hooks && !proto.fireHook.__async) proto.fireHook = asyncify(...)
HookFinalize(t, args) ==
    IF Truthy(Get(args, "__hooks")) /\ ~AsyncFlag(ProtoGet(t, "fireHook"))
    THEN [t EXCEPT !.proto = Put(@, "fireHook", Convert(ProtoGet(t, "fireHook"), Undefined))]
    ELSE t

\* the args object when the last loop reads it: unshift has changed the
\* array that args.__mixins holds
ArgsAfterMixins(args) ==
    IF Truthy(Get(args, "__mixins"))
    THEN [args EXCEPT !["__mixins"] = ClassList(MixinList(args))]
    ELSE args

\* for (var key in args) if (!key.match(...)) proto[key] = args[key]
DefaultsStep(t, args) ==
    LET keys == {key \in DOMAIN args : ~MetaKeyMatch(key)} IN
    [t EXCEPT !.proto = Assign(@, [key \in keys |-> ArgsAfterMixins(args)[key]])]

\* the stages of one Class(args, obj) call, in order
Stages(cs, c, args) ==
    LET s0 == Target(cs, c)
        s1 == StaticStep(s0, args)
        s2 == AsyncifyStep(s1, args)
        s3 == MergeMixins(s2, MixinList(args))
        s4 == HookFinalize(s3, args)
        s5 == DefaultsStep(s4, args)
    IN  <<s0, s1, s2, s3, s4, s5>>

NoCall == [target |-> "none", args |-> Empty, stages |-> <<>>]

\* Class(args, obj) on class c
Augment(c, args) ==
    /\ augCount < MaxAugments
    /\ LET st == Stages(classes, c, args) IN
        /\ classes' = [classes EXCEPT ![c] = [proto |-> st[6].proto,
                                              statics |-> st[6].statics]]
        /\ last' = [target |-> c, args |-> args, stages |-> st]
    /\ augCount' = augCount + 1
    /\ UNCHANGED <<body, instances, staticSets, callVars, hookVars>>

\* new Foo(): the instance has no property of its own, it reads the prototype
NewInstance ==
    /\ instances < MaxInstances
    /\ instances' = instances + 1
    /\ UNCHANGED <<classes, body, last, augCount, staticSets, callVars, hookVars>>

\* the directive table of the latest call ({} when it had none)
StaticDirective(args) ==
    IF Truthy(Get(args, "__static")) THEN args["__static"].tbl ELSE Empty

\* the program assigns a static member that the latest call declared, as in
\* Beer.types = ...
SetStatic(key, v) ==
    /\ staticSets < MaxStaticSets
    /\ last.target # "none"
    /\ key \in DOMAIN StaticDirective(last.args)
    /\ classes[last.target].statics[key] # v
    /\ classes' = [classes EXCEPT ![last.target].statics[key] = v]
    /\ staticSets' = staticSets + 1
    /\ UNCHANGED <<body, last, augCount, instances, callVars, hookVars>>

\* what an instance of c reads as this[key]
RECURSIVE InstanceRead(_, _, _)
InstanceRead(cs, c, key) ==
    IF c = "none" THEN Undefined
    ELSE IF key \in DOMAIN cs[c].proto THEN cs[c].proto[key]
    ELSE InstanceRead(cs, Parent(c), key)

\* what the code of an instance of c reads as c[key] (Beer.types)
RECURSIVE StaticRead(_, _, _)
StaticRead(cs, c, key) ==
    IF c = "none" THEN Undefined
    ELSE IF key \in DOMAIN cs[c].statics THEN cs[c].statics[key]
    ELSE StaticRead(cs, Parent(c), key)

InitAugment ==
    /\ body \in Bodies
    /\ classes = [c \in ClassNames |-> IF c = "Base" THEN BaseClass ELSE FooClass(body)]
    /\ last = NoCall
    /\ augCount = 0
    /\ instances = 0
    /\ staticSets = 0
    /\ call = NoConvertedCall
    /\ promise = NoPromise
    /\ NoHooksYet

NextAugment ==
    \/ \E c \in ClassNames, args \in Configs : Augment(c, args)
    \/ NewInstance
    \/ \E key \in {"units", "types", "prop1"} : SetStatic(key, Data(99))

SpecAugment == InitAugment /\ [][NextAugment]_vars

----------------------------------------------------------------------------
(* Properties of the class builder                                         *)

Called == last.target # "none"

\* the stages of the latest call
Before == last.stages[1]
AfterAsyncify == last.stages[3]
AfterMerge == last.stages[4]
Final == last.stages[6]

\* the ordinary keys of the configuration, as the claims define them
OrdinaryKeys(args) == DOMAIN args \ DirectiveKeys

\* the position of the earliest class of the list that has member key
RECURSIVE EarliestWith(_, _, _)
EarliestWith(mixins, part, key) ==
    IF key \in DOMAIN Mixins[Head(mixins)][part] THEN Head(mixins)
    ELSE EarliestWith(Tail(mixins), part, key)

\* the member names the classes of the list bring, constructors left out
Contributed(mixins, part) ==
    UNION {DOMAIN Mixins[mixins[i]][part] : i \in 1..Len(mixins)}
        \ (IF part = "proto" THEN {"__name", "constructor", "prototype"}
           ELSE {"name", "length", "prototype"})

\* final is value, or the conversion of value that the hooks directive
\* applies to fireHook
SameUpToHookConversion(key, final, value) ==
    \/ final = value
    \/ /\ key = "fireHook"
       /\ Truthy(Get(last.args, "__hooks"))
       /\ final = MarkAsync(asyncify(value, Undefined))

\* C4 as stated: a name that a mixin brings keeps the target's value when
\* the target declares it itself (class body, __static, ordinary key), and
\* otherwise gets the value of the earliest mixin of the list that has it
C4_DeclaredOrEarliestMixin ==
    Called =>
      LET mixins == MixinList(last.args)
          args == last.args
      IN  /\ \A key \in Contributed(mixins, "proto") :
                IF key \in OrdinaryKeys(args)
                THEN ProtoGet(Final, key) = args[key]
                ELSE IF key \in DOMAIN Before.proto
                THEN SameUpToHookConversion(key, ProtoGet(Final, key),
                                            ProtoGet(AfterAsyncify, key))
                ELSE SameUpToHookConversion(key, ProtoGet(Final, key),
                        Mixins[EarliestWith(mixins, "proto", key)].proto[key])
          /\ \A key \in Contributed(mixins, "statics") :
                IF key \in DOMAIN StaticDirective(args)
                THEN Final.statics[key] = StaticDirective(args)[key]
                ELSE IF key \in DOMAIN Before.statics
                THEN Final.statics[key] = Before.statics[key]
                ELSE /\ key \in DOMAIN Final.statics
                     /\ Final.statics[key] =
                            Mixins[EarliestWith(mixins, "statics", key)].statics[key]

\* the keys the last loop of Class() copies to the prototype
CopiedKeys(args) == {key \in DOMAIN args : ~MetaKeyMatch(key)}

\* C4 amended: a name that a mixin brings keeps the value visible on the
\* target when the target declares it itself or inherits it from a
\* superclass, and otherwise gets the value of the earliest mixin of the list
\* that has it (fireHook in its converted form when hooks are enabled); the
\* merge changes no member the target had; no constructor is copied
C4_VisibleOrEarliestMixin ==
    Called =>
      LET mixins == MixinList(last.args)
          args == last.args
      IN  /\ \A key \in Contributed(mixins, "proto") :
                IF key \in CopiedKeys(args)
                THEN ProtoGet(Final, key) = args[key]
                ELSE IF InProto(Before, key)
                THEN SameUpToHookConversion(key, ProtoGet(Final, key),
                                            ProtoGet(AfterAsyncify, key))
                ELSE SameUpToHookConversion(key, ProtoGet(Final, key),
                        Mixins[EarliestWith(mixins, "proto", key)].proto[key])
          /\ \A key \in Contributed(mixins, "statics") :
                IF key \in DOMAIN StaticDirective(args)
                THEN Final.statics[key] = StaticDirective(args)[key]
                ELSE IF InStatics(Before, key)
                THEN /\ (key \in DOMAIN Final.statics) = (key \in DOMAIN Before.statics)
                     /\ Get(Final.statics, key) = Get(Before.statics, key)
                ELSE /\ key \in DOMAIN Final.statics
                     /\ Final.statics[key] =
                            Mixins[EarliestWith(mixins, "statics", key)].statics[key]
          /\ \A key \in DOMAIN AfterAsyncify.proto :
                AfterMerge.proto[key] = AfterAsyncify.proto[key]
          /\ \A key \in DOMAIN AfterAsyncify.statics :
                AfterMerge.statics[key] = AfterAsyncify.statics[key]
          /\ ("constructor" \notin DOMAIN args
                => Final.proto["constructor"] = Before.proto["constructor"])

\* C4 witness: Foo was built with the list [Liquid, Glass]: flavor and units,
\* which both have, came from Liquid; pour, which Foo declares, is not
\* Liquid's; base and kingdom, which Foo inherits, were not copied
C4_Witness ==
    /\ Called /\ last.target = "Foo"
    /\ MixinList(last.args) = <<"Liquid", "Glass">>
    /\ Get(Final.proto, "flavor") = Mixins["Liquid"].proto["flavor"]
    /\ Before.proto["pour"] = FooMethods["pour"]
    /\ Get(Final.proto, "pour") # Mixins["Liquid"].proto["pour"]
    /\ "base" \notin DOMAIN Final.proto
    /\ Get(Final.statics, "units") = Mixins["Liquid"].statics["units"]
    /\ "kingdom" \notin DOMAIN Final.statics

AllFunctions ==
    UNION {{classes[c].proto[key] : key \in DOMAIN classes[c].proto} : c \in ClassNames}

\* C9: after any number of Class() calls no method is wrapped more than
\* once, and no natively asynchronous method is wrapped at all
C9_ConvertedAtMostOnce ==
    \A v \in {f \in AllFunctions : f.kind = "func"} :
        /\ WrapDepth(v) <= 1
        /\ WrapDepth(v) > 0 => CtorName(Innermost(v)) # "AsyncFunction"

\* C10: after a call every configuration key other than the five directive
\* keys is on the prototype with the configuration's value
C10_OrdinaryKeysCopied ==
    Called =>
        \A key \in OrdinaryKeys(last.args) :
            /\ key \in DOMAIN classes[last.target].proto
            /\ classes[last.target].proto[key] = last.args[key]

\* C17: after a call none of the five directive keys is a property of the
\* prototype of the target, and an instance reads none of them
C17_NoDirectiveOnPrototype ==
    Called =>
        \A key \in DirectiveKeys :
            /\ key \notin DOMAIN classes[last.target].proto
            /\ InstanceRead(classes, last.target, key) = Undefined

----------------------------------------------------------------------------
(* Calls of a converted method                                             *)

\* converted methods, as the branches of the asyncify pass make them
ConvertedMethods ==
    { Convert(FooMethods["pour"], Undefined),
      Convert(FooMethods["pour"], NameList(<<"amount", "units">>)),
      Convert(FooMethods["pour"], NameList(<<>>)) }

\* the values a callback is called with
Values == {Undefined, Data(0), Data(8)}

RECURSIVE SeqsUpTo(_, _)
SeqsUpTo(S, n) ==
    IF n = 0 THEN {<<>>}
    ELSE LET shorter == SeqsUpTo(S, n - 1)
         IN  shorter \cup {Append(q, x) : q \in {r \in shorter : Len(r) = n - 1}, x \in S}

\* what the original method can pass to its callback: err, then the results
CallbackResults == SeqsUpTo(Values, 1 + MaxResults)

\* the arguments a caller gives before the optional callback
CallerArgs == {<<>>, <<Data(100)>>}

\* the original method calls the callback it was given, its last argument
CallTheCallback(c, p, received) ==
    LET callback == c.origCalls[1][Len(c.origCalls[1])] IN
    IF callback = SynthCallback
    THEN [call |-> [c EXCEPT !.status = "calledBack", !.passed = Append(@, received)],
          promise |-> SynthCallbackBody(p, c.method.argNames, received)]
    ELSE [call |-> [c EXCEPT !.status = "calledBack", !.passed = Append(@, received),
                             !.received = Append(@, received)],
          promise |-> p]

\* method(...args): the wrapper calls origFunc, which calls its callback
\* during the call (now = TRUE) or keeps it for later
CallConverted(method, args, now, received) ==
    /\ call.status = "idle"
    /\ LET started == [status |-> "pending", method |-> method, args |-> args,
                       origCalls |-> <<OrigArgs(args)>>, passed |-> <<>>,
                       received |-> <<>>]
           returned == Returned(args, Undefined)
           after == CallTheCallback(started, returned, received)
       IN  IF now
           THEN call' = after.call /\ promise' = after.promise
           ELSE call' = started /\ promise' = returned
    /\ UNCHANGED <<augVars, hookVars>>

\* the original method calls its callback on a later turn
CallbackLater(received) ==
    /\ call.status = "pending"
    /\ LET after == CallTheCallback(call, promise, received)
       IN  call' = after.call /\ promise' = after.promise
    /\ UNCHANGED <<augVars, hookVars>>

InitAsync ==
    /\ body = "plain"
    /\ classes = [c \in ClassNames |-> IF c = "Base" THEN BaseClass ELSE FooClass(body)]
    /\ last = NoCall
    /\ augCount = 0
    /\ instances = 0
    /\ staticSets = 0
    /\ call = NoConvertedCall
    /\ promise = NoPromise
    /\ NoHooksYet

NextAsync ==
    \/ \E method \in ConvertedMethods, args \in CallerArgs, received \in CallbackResults :
          \/ CallConverted(method, args, TRUE, received)
          \/ CallConverted(method, Append(args, CallerCallback), TRUE, received)
    \/ \E method \in ConvertedMethods, args \in CallerArgs :
          \/ CallConverted(method, args, FALSE, <<>>)
          \/ CallConverted(method, Append(args, CallerCallback), FALSE, <<>>)
    \/ \E received \in CallbackResults : CallbackLater(received)

SpecAsync == InitAsync /\ [][NextAsync]_vars

----------------------------------------------------------------------------
(* Properties of converted methods                                         *)

\* the caller gave a function as the last argument
WithCallback == Len(call.args) > 0 /\ call.args[Len(call.args)] = CallerCallback

\* a call in promise style whose original method has called its callback
DeferredCalledBack ==
    call.status = "calledBack" /\ ~WithCallback

\* what the original method passed to its callback: its error argument and
\* the results after it
PassedErr == IF Len(call.passed[1]) > 0 THEN Head(call.passed[1]) ELSE Undefined
PassedResults == IF Len(call.passed[1]) > 0 THEN Tail(call.passed[1]) ELSE <<>>

FieldNames == call.method.argNames

\* C6 as stated: in promise style the promise settles once, rejects with err
\* when the callback got a truthy err, and resolves with an absent value when
\* err is falsy and no results follow
C6_RejectsOrResolvesAbsent ==
    /\ (call.status # "idle" /\ ~WithCallback) => promise.settled <= 1
    /\ DeferredCalledBack =>
        /\ promise.settled = 1
        /\ Truthy(PassedErr) => promise.state = "rejected" /\ promise.value = PassedErr
        /\ (~Truthy(PassedErr) /\ PassedResults = <<>>) =>
              promise.state = "resolved" /\ promise.value = Undefined

\* C6 amended: as above, but with a falsy err and no results the promise
\* resolves with an absent value only when no result field names were given;
\* with field names it resolves with the mapping of every name to an absent
\* value
C6_RejectsOrResolvesEmpty ==
    /\ (call.status # "idle" /\ ~WithCallback) => promise.settled <= 1
    /\ DeferredCalledBack =>
        /\ promise.settled = 1
        /\ Truthy(PassedErr) => promise.state = "rejected" /\ promise.value = PassedErr
        /\ (~Truthy(PassedErr) /\ PassedResults = <<>>) =>
              /\ promise.state = "resolved"
              /\ IF FieldNames.kind = "array"
                 THEN /\ promise.value.kind = "object"
                      /\ DOMAIN promise.value.tbl = Names(FieldNames)
                      /\ \A name \in Names(FieldNames) : promise.value.tbl[name] = Undefined
                 ELSE promise.value = Undefined

\* C6 witness: a method with field names, called in promise style, passed a
\* truthy err followed by results, and the promise rejected with err
C6_Witness ==
    /\ DeferredCalledBack
    /\ FieldNames.kind = "array"
    /\ Truthy(PassedErr) /\ Len(PassedResults) > 0
    /\ promise.state = "rejected" /\ promise.value = PassedErr

\* C7: in promise style, after a falsy err followed by results r1..rk, the
\* promise resolves with: given field names n1..nm, the mapping of each ni
\* to ri; without field names, the sequence r1..rk when k > 1, r1 when
\* k = 1, an absent value when k = 0
C7_SuccessValue ==
    (DeferredCalledBack /\ ~Truthy(PassedErr)) =>
        /\ promise.state = "resolved"
        /\ IF FieldNames.kind = "array"
           THEN /\ promise.value.kind = "object"
                /\ DOMAIN promise.value.tbl = Names(FieldNames)
                /\ \A i \in 1..Len(FieldNames.names) :
                      promise.value.tbl[FieldNames.names[i]] =
                          IF i <= Len(PassedResults) THEN PassedResults[i] ELSE Undefined
           ELSE CASE Len(PassedResults) > 1 ->
                        /\ promise.value.kind = "array"
                        /\ promise.value.items = PassedResults
                  [] Len(PassedResults) = 1 -> promise.value = PassedResults[1]
                  [] OTHER -> promise.value = Undefined

\* C7 witness: names [amount, units] and results (8, 0) gave
\* {amount: 8, units: 0}
C7_Witness ==
    /\ DeferredCalledBack
    /\ FieldNames = NameList(<<"amount", "units">>)
    /\ call.passed[1] = <<Undefined, Data(8), Data(0)>>
    /\ promise.state = "resolved"
    /\ promise.value = Object([amount |-> Data(8), units |-> Data(0)])

\* C8: a call with a function as the last argument calls the original method
\* once, with the caller's arguments and nothing appended; the caller's
\* function gets what the original method passes; the promise the wrapper
\* returns holds what the original method returned and is not settled by the
\* callback's values
C8_ClassicPassThrough ==
    (call.status # "idle" /\ WithCallback) =>
        /\ call.origCalls = <<call.args>>
        /\ call.received = call.passed
        /\ promise = [state |-> "resolved", value |-> Undefined, settled |-> 1]

\* C8 witness: a classic call whose original method passed a truthy err
C8_Witness ==
    /\ call.status = "calledBack" /\ WithCallback
    /\ Truthy(PassedErr)
    /\ call.received = <<call.passed[1]>>
    /\ promise.state = "resolved"

----------------------------------------------------------------------------
(* An instance of a class built with __hooks, and the turns of its program *)

HookNames == {"x", "y"}

\* the listeners: two callback-style functions and one async function
Listeners ==
    { Method("h1", "Function", "callback"),
      Method("h2", "Function", "callback"),
      Method("a1", "AsyncFunction", "thingy") }

Thingies == {Data(1), Data(2)}

\* what a listener can give as its error, and an async listener as its
\* rejection reason
ErrValues == {Undefined, Data(5)}

\* what a callback-style listener does during its call
Behaviours ==
    {[when |-> "later", err |-> Undefined]}
        \cup {[when |-> "sync", err |-> e] : e \in ErrValues}

\* proto.fireHook of the class: HookHelper's fireHook after Class({__hooks: true}, ...)
FireHookMethod ==
    Stages([c \in ClassNames |-> IF c = "Base" THEN BaseClass ELSE FooClass("plain")],
           "Foo", [__hooks |-> True])[6].proto["fireHook"]

Runtime ==
    [hooks |-> hooks, fire |-> fire, tickQueue |-> tickQueue, log |-> log,
     completions |-> completions, promise |-> promise]

SetRuntime(rt) ==
    /\ hooks' = rt.hooks
    /\ fire' = rt.fire
    /\ tickQueue' = rt.tickQueue
    /\ log' = rt.log
    /\ completions' = rt.completions
    /\ promise' = rt.promise

\* the fire under way, if any, notes the call of a registry method made
\* between two of its steps: that there was one, and for its own name whether
\* a handler was registered and which handlers removeHook was called with
DuringFire(op, name, handler) ==
    IF fire.status = "firing"
    THEN [fire EXCEPT !.mutated = TRUE,
                      !.registered = @ \/ (op = "registerHook" /\ name = fire.name),
                      !.removed = IF op = "removeHook" /\ name = fire.name
                                  THEN @ \cup {handler} ELSE @]
    ELSE fire

\* instance.registerHook(name, handler), between two turns of the dispatcher
RegisterHook(name, handler) ==
    /\ hookCalls < MaxHookCalls
    /\ regCount < MaxRegisters
    /\ hooks' = registerHook(hooks, name, handler)
    /\ fire' = DuringFire("registerHook", name, handler)
    /\ hookCalls' = hookCalls + 1
    /\ regCount' = regCount + 1
    /\ UNCHANGED <<augVars, call, promise, tickQueue, log, completions>>

\* instance.removeHook(name, handler) or instance.removeHook(name)
RemoveHook(name, handler) ==
    /\ hookCalls < MaxHookCalls
    /\ hooks' = removeHook(hooks, name, handler)
    /\ fire' = DuringFire("removeHook", name, handler)
    /\ hookCalls' = hookCalls + 1
    /\ UNCHANGED <<augVars, call, promise, tickQueue, log, completions, regCount>>

\* instance.fireHook(...args): the wrapper of asyncify calls HookHelper's
\* fireHook with the caller's arguments, and its own callback after them
\* when the caller gave none
CallFireHook(args, b) ==
    /\ fire.status \in {"idle", "done", "threw"}
    /\ hookCalls < MaxHookCalls
    /\ LET origArgs == OrigArgs(args)
           fresh == [hooks |-> hooks,
                     fire |-> [Idle EXCEPT !.mode = IF ClassicStyle(args) THEN "classic"
                                                    ELSE "promise",
                                           !.argNames = FireHookMethod.argNames],
                     tickQueue |-> tickQueue, log |-> <<>>, completions |-> <<>>,
                     promise |-> Returned(args, Undefined)]
       IN  SetRuntime(fireHook(fresh, origArgs[1], origArgs[2], origArgs[3], b))
    /\ hookCalls' = hookCalls + 1
    /\ UNCHANGED <<augVars, call, regCount>>

\* the event loop runs the function given to process.nextTick
Tick(b) ==
    /\ tickQueue # <<>>
    /\ LET rt == [Runtime EXCEPT !.tickQueue = Tail(@)] IN
        IF Head(tickQueue) = "callback"
        THEN SetRuntime(Deliver(rt, <<>>, Ctx(FALSE, FALSE)))
        ELSE SetRuntime(Iterator(rt, b, Ctx(FALSE, FALSE)))
    /\ UNCHANGED <<augVars, call, hookCalls, regCount>>

\* the callback-style listener that is pending calls its completion callback:
\* function(err) { if (err) return callback(err); if (nextThread) iterator(); ... }
ListenerCallsBack(err, b) ==
    /\ fire.status = "firing" /\ fire.pending = "callback"
    /\ LET rt == [Runtime EXCEPT
                    !.log = Append(@, [ev |-> "done", handler |-> log[Len(log)].handler,
                                       val |-> err, failed |-> Truthy(err),
                                       inCall |-> FALSE, inCompletion |-> TRUE,
                                       inListener |-> FALSE])]
       IN  IF Truthy(err)
           THEN SetRuntime(Deliver(rt, <<err>>, Ctx(FALSE, TRUE)))
           ELSE SetRuntime(Iterator(rt, b, Ctx(FALSE, TRUE)))
    /\ UNCHANGED <<augVars, call, hookCalls, regCount>>

\* the promise of the async listener that is pending settles:
\* handler.call( self, thingy ).then( iterator, callback )
ListenerSettles(rejected, reason, b) ==
    /\ fire.status = "firing" /\ fire.pending = "promise"
    /\ LET rt == [Runtime EXCEPT
                    !.log = Append(@, [ev |-> "done", handler |-> log[Len(log)].handler,
                                       val |-> reason, failed |-> rejected,
                                       inCall |-> FALSE, inCompletion |-> FALSE,
                                       inListener |-> FALSE])]
       IN  IF rejected
           THEN SetRuntime(Deliver(rt, <<reason>>, Ctx(FALSE, FALSE)))
           ELSE SetRuntime(Iterator(rt, b, Ctx(FALSE, FALSE)))
    /\ UNCHANGED <<augVars, call, hookCalls, regCount>>

InitHooks ==
    /\ body = "plain"
    /\ classes = [c \in ClassNames |-> IF c = "Base" THEN BaseClass ELSE FooClass(body)]
    /\ last = NoCall
    /\ augCount = 0
    /\ instances = 0
    /\ staticSets = 0
    /\ call = NoConvertedCall
    /\ promise = NoPromise
    /\ NoHooksYet

NextHooks ==
    \/ \E name \in HookNames, handler \in Listeners : RegisterHook(name, handler)
    \/ \E name \in HookNames, handler \in Listeners \cup {Undefined} : RemoveHook(name, handler)
    \/ \E name \in HookNames, thingy \in Thingies, b \in Behaviours :
          \/ CallFireHook(<<name, thingy>>, b)
          \/ CallFireHook(<<name, thingy, CallerCallback>>, b)
    \/ \E b \in Behaviours : Tick(b)
    \/ \E err \in ErrValues, b \in Behaviours : ListenerCallsBack(err, b)
    \/ \E reason \in ErrValues, b \in Behaviours :
          \/ ListenerSettles(TRUE, reason, b)
          \/ ListenerSettles(FALSE, Undefined, b)

SpecHooks == InitHooks /\ [][NextHooks]_vars

----------------------------------------------------------------------------
(* Properties of the hook dispatcher                                       *)

Invocations == SelectSeq(log, LAMBDA e : e.ev = "invoke")

FailureAt(k) == log[k].ev = "done" /\ log[k].failed

SomeFailure == \E k \in 1..Len(log) : FailureAt(k)

Fired == fire.status \in {"firing", "done"}

\* C1: when no listener fails and no listener is registered or removed during
\* the fire, the listeners registered under the name are invoked one by one in
\* registration order, each once and with the payload of the fire; a listener
\* is invoked only after the one before it has completed, and the completion
\* of the fire is delivered, once, only after the last listener has completed.
C1_SequentialInOrder ==
    (Fired /\ ~fire.mutated /\ ~SomeFailure) =>
        LET n == Len(fire.snapshot) IN
        /\ Len(Invocations) <= n
        /\ \A i \in 1..Len(Invocations) :
              /\ Invocations[i].handler = fire.snapshot[i].id
              /\ Invocations[i].val = fire.thingy
        /\ \A i \in 1..Len(log) :
              IF i % 2 = 1 THEN log[i].ev = "invoke"
              ELSE log[i].ev = "done" /\ log[i].handler = log[i-1].handler
        /\ completions # <<>> => Len(log) = 2 * n
        /\ Len(completions) = (IF fire.status = "done" THEN 1 ELSE 0)

\* a fire of two listeners, one of each style, has completed
C1_Witness ==
    /\ fire.status = "done" /\ ~fire.mutated /\ ~SomeFailure
    /\ Len(fire.snapshot) = 2
    /\ CtorName(fire.snapshot[1]) # CtorName(fire.snapshot[2])
    /\ Len(log) = 4
    /\ Len(completions) = 1

\* C2: when a listener signals failure, no listener is invoked after it in that
\* fire, and the completion of the fire is delivered exactly once with the
\* failure value as its error; the promise of a deferred fire rejects with it.
C2_FailureAborts ==
    \A k \in 1..Len(log) :
        FailureAt(k) =>
            /\ k = Len(log)
            /\ Len(completions) = 1
            /\ completions[1].args = <<log[k].val>>
            /\ fire.mode = "promise" =>
                  promise.state = "rejected" /\ promise.value = log[k].val

\* C3: a fire on a name with no listeners delivers its completion once, with
\* no error, and not before the fireHook call has returned: until it is
\* delivered it is the one function waiting in the next-tick queue.
C3_EmptyFireNextTick ==
    (Fired /\ fire.snapshot = <<>>) =>
        /\ \A i \in 1..Len(completions) :
              completions[i].args = <<>> /\ ~completions[i].inCall
        /\ fire.status = "firing" => completions = <<>> /\ tickQueue = <<"callback">>
        /\ fire.status = "done" =>
              /\ Len(completions) = 1
              /\ fire.mode = "promise" =>
                    promise.state = "resolved" /\ promise.value = Undefined

\* the completion of a fire on a name whose listeners were all removed
C3_Witness ==
    /\ fire.status = "done" /\ fire.snapshot = <<>>
    /\ hookCalls >= 3
    /\ Len(completions) = 1 /\ ~completions[1].inCall

\* the registry as a table from names to sequences; no table is the empty one
Registry == IF Truthy(hooks) THEN hooks.tbl ELSE Empty

\* the reference list operations
RefAppend(reg, name, h) ==
    Put(reg, name, (IF name \in DOMAIN reg THEN reg[name] ELSE <<>>) \o <<h>>)

RECURSIVE RefWithoutFirst(_, _)
RefWithoutFirst(list, h) ==
    IF list = <<>> THEN <<>>
    ELSE IF Head(list) = h THEN Tail(list)
    ELSE <<Head(list)>> \o RefWithoutFirst(Tail(list), h)

RefWithoutName(reg, name) == [n \in DOMAIN reg \ {name} |-> reg[n]]

RefRemove(reg, name, h) ==
    IF name \notin DOMAIN reg THEN reg
    ELSE IF RefWithoutFirst(reg[name], h) = <<>> THEN RefWithoutName(reg, name)
    ELSE Put(reg, name, RefWithoutFirst(reg[name], h))

C12_RegisteredLaterNotInvoked ==
    (Fired /\ fire.removed = {}) =>
        /\ Len(Invocations) <= Len(fire.snapshot)
        /\ \A i \in 1..Len(Invocations) : Invocations[i].handler = fire.snapshot[i].id

\* the completion, without error, of a callback-style listener
CallbackStyle(id) == \E l \in Listeners : l.id = id /\ CtorName(l) # "AsyncFunction"

CompletedOK(k) ==
    log[k].ev = "done" /\ ~log[k].failed /\ CallbackStyle(log[k].handler)

\* the step the dispatcher made after the completion at k: the invocation of
\* the next listener, or the delivery of the completion of the fire
HasNextStep(k) == k < Len(log) \/ (fire.status = "done" /\ completions # <<>>)

NextStep(k) == IF k < Len(log) THEN log[k + 1] ELSE completions[1]

FreshTurn(step) == ~step.inCall /\ ~step.inCompletion /\ ~step.inListener

\* C13 as stated: after a callback-style listener has completed without
\* error the next step never runs inside the call of its completion callback.
C13_NextStepNeverInCompletion ==
    \A k \in 1..Len(log) :
        (CompletedOK(k) /\ HasNextStep(k)) => ~NextStep(k).inCompletion

\* C13 amended: when the completion callback is called inside the call of the
\* listener the next step runs on a fresh turn; when it is called later, the
\* next step runs inside the completion callback, which is then on a turn of
\* its own, inside neither the fireHook call nor the call of a listener.
C13_NextStepFreshOrInLateCompletion ==
    \A k \in 1..Len(log) :
        (CompletedOK(k) /\ HasNextStep(k)) =>
            IF log[k].inListener
            THEN FreshTurn(NextStep(k))
            ELSE /\ NextStep(k).inCompletion
                 /\ ~NextStep(k).inCall /\ ~NextStep(k).inListener
                 /\ ~log[k].inCall

\* a listener completed inside its call and the next was invoked on a fresh
\* turn; that one completed later and the fire was completed inside its
\* completion callback
C13_Witness ==
    /\ Len(log) = 4 /\ fire.status = "done"
    /\ CompletedOK(2) /\ log[2].inListener /\ FreshTurn(log[3])
    /\ CompletedOK(4) /\ ~log[4].inListener
    /\ completions[1].args = <<>> /\ completions[1].inCompletion

\* C14: no step of a fire raises an exception, whatever calls of registerHook
\* and removeHook are made between its steps, and its completion is delivered
\* no more than once, once when it has ended.
C14_SettlesWithoutException ==
    /\ fire.status # "threw"
    /\ Len(completions) <= 1
    /\ fire.status = "done" => Len(completions) = 1

Occurrences(seq, x) == Cardinality({i \in 1..Len(seq) : seq[i] = x})

\* C15: when a fire with no failing listener has completed, and no handler
\* was registered for the name during it, every listener of the sequence as
\* it was when the fire started that removeHook was not called with has been
\* invoked as many times as it was in that sequence.
C15_NotRemovedInvokedOnce ==
    (fire.status = "done" /\ ~SomeFailure /\ ~fire.registered
        /\ Undefined \notin fire.removed) =>
        \A i \in 1..Len(fire.snapshot) :
            fire.snapshot[i] \notin fire.removed =>
                Cardinality({j \in 1..Len(Invocations) :
                                Invocations[j].handler = fire.snapshot[i].id})
                    = Occurrences(fire.snapshot, fire.snapshot[i])

\* C16: the callback given to fireHook is never called before the fireHook
\* call has returned.
C16_ClassicNeverInCall ==
    fire.mode = "classic" =>
        \A i \in 1..Len(completions) : ~completions[i].inCall

====
